---------------------------- MODULE Spec2Model ----------------------------
(***************************************************************************)
(* Model of the offline analysis scripts of the courier-delivery           *)
(* simulation experiments:                                                 *)
(*   - experiments/merge_csv_files.py  (merge_csv_files,                   *)
(*     calculate_replications, generate_report, main)                      *)
(*   - src/replication_analysis.py     (calculate_replications, ...)       *)
(*   - experiments/analyze_courier_experiments.py and its older copy       *)
(*     src/analyze_courier_experiments.py (load_and_parse_csv,             *)
(*     extract_parameter, main)                                            *)
(*                                                                         *)
(* The scripts are sequential; each function is one action.  Every script  *)
(* has its own specification (SpecRepl, SpecMerge, SpecExtract, SpecLoad), *)
(* whose Init draws the inputs of the script from bounded sets.            *)
(***************************************************************************)
EXTENDS Integers, Sequences, FiniteSets, TLC

VARIABLES
    \* ---- calculate_replications (replication_analysis.py) ----
    data_columns,       \* data.columns of the frame passed in
    data_rows,          \* rows of the frame: [Configuration, value]
    relative_precision, \* argument, a rational
    confidence,         \* argument, in percent
    calc_pc,            \* "start" | "returned" | "raised"
    calc_exc,           \* the exception that left the function, or "none"
    results,            \* the dict being returned (insertion ordered)
    processed,          \* configurations whose loop body began, in order
    report_pc,          \* generate_report: "start" | "returned"
    report              \* the report: one block of lines per result entry

replVars == <<data_columns, data_rows, relative_precision, confidence,
              calc_pc, calc_exc, results, processed, report_pc, report>>

VARIABLES
    \* ---- merge_csv_files and main (merge_csv_files.py) ----
    fs,                 \* the files on disk before the call, by path
    input_files,        \* argument: None or a list of paths
    output_file,        \* argument: None or a path
    add_source_column,  \* argument
    merge_pc,           \* "start" | "returned" | "raised"
    merge_ret,          \* the value returned by merge_csv_files
    reads,              \* the paths handed to pd.read_csv, in order
    written,            \* the file written by to_csv
    prints,             \* the messages printed by merge_csv_files
    summary,            \* the per-file row counts printed at the end
    main_pc,            \* "start" | "returned" | "raised"
    main_exc,           \* the exception that left main, or "none"
    main_log            \* the messages and steps of main, in order

mergeVars == <<fs, input_files, output_file, add_source_column, merge_pc,
               merge_ret, reads, written, prints, summary, main_pc,
               main_exc, main_log>>

VARIABLES
    \* ---- extract_parameter (analyze_courier_experiments.py) ----
    config_str,         \* argument: a string (sequence of characters) or not
    param_name,         \* argument: a sequence of characters
    is_bool,            \* argument
    ep_pc,              \* "start" | "returned"
    ep_ret              \* the value returned

extractVars == <<config_str, param_name, is_bool, ep_pc, ep_ret>>

VARIABLES
    \* ---- load_and_parse_csv and main (analyze_courier_experiments.py) ----
    csv_file,           \* the file at csv_file_path
    load_pc,            \* "start" | "returned" | "raised"
    load_exc,           \* the exception that left load_and_parse_csv
    load_caught,        \* the exception its except clause caught
    load_ret,           \* the value returned: None or the frame
    load_prints,        \* the messages printed by load_and_parse_csv
    am_pc,              \* main: "start" | "returned" | "raised"
    am_exc,             \* the exception that left main, or "none"
    am_log,             \* the messages and steps of main, in order
    am_columns          \* the columns of main's frame when main ended

loadVars == <<csv_file, load_pc, load_exc, load_caught, load_ret,
              load_prints, am_pc, am_exc, am_log, am_columns>>

VARIABLES
    \* ---- compare_configurations_statistically ----
    cmp_df,             \* argument: the frame
    cmp_pc,             \* "start" | "returned"
    cmp_ret             \* the value returned: None or the dict of matrices

compareVars == <<cmp_df, cmp_pc, cmp_ret>>

vars == <<replVars, mergeVars, extractVars, loadVars, compareVars>>

---------------------------------------------------------------------------
(* Bounds *)
MaxRows == 3

---------------------------------------------------------------------------
(* Exact arithmetic.  Python floats are modelled by exact rationals        *)
(* [n, d] (d > 0, lowest terms) and by surds: Sqrt(q) of a rational q >= 0, *)
(* which is what np.std and math.sqrt produce from rational input.         *)

Abs(x) == IF x < 0 THEN -x ELSE x

RECURSIVE GCD(_, _)
GCD(a, b) == IF b = 0 THEN a ELSE GCD(b, a % b)

Rat(n, d) ==
    LET g == GCD(Abs(n), Abs(d))
        s == IF d < 0 THEN -1 ELSE 1
    IN  [n |-> s * (n \div g), d |-> s * (d \div g)]

RMul(p, q) ==
    LET g1 == GCD(Abs(p.n), q.d)
        g2 == GCD(Abs(q.n), p.d)
    IN  Rat((p.n \div g1) * (q.n \div g2), (p.d \div g2) * (q.d \div g1))

RInv(p) == Rat(p.d, p.n)
RDiv(p, q) == RMul(p, RInv(q))
RAbs(p) == [n |-> Abs(p.n), d |-> p.d]
RLe(p, q) == p.n * q.d <= q.n * p.d
RLt(p, q) == p.n * q.d < q.n * p.d
RInt(k) == [n |-> k, d |-> 1]

\* math.ceil of a non-negative rational
Ceil(p) == (p.n + p.d - 1) \div p.d

\* Floating point values that are not finite numbers
NaN == [k |-> "nan"]
Inf == [k |-> "inf"]
Num(q) == [k |-> "num", q |-> q]         \* a finite rational
Surd(q) == [k |-> "surd", q |-> q]       \* sqrt(q), q a rational >= 0
isnan(x) == x.k = "nan"
isinf(x) == x.k = "inf"

---------------------------------------------------------------------------
(* Float arithmetic on the modelled values *)

\* x * y for a rational or NaN x and a surd or NaN y
FMul(x, y) ==
    IF isnan(x) \/ isnan(y) THEN NaN
    ELSE Surd(RMul(RMul(x.q, x.q), y.q))

\* surd / math.sqrt(n)
FDivSqrt(y, n) ==
    IF isnan(y) THEN NaN ELSE Surd(RDiv(y.q, RInt(n)))

\* surd / rational (the rational is > 0)
FDiv(y, p) ==
    IF isnan(y) THEN NaN ELSE Surd(RDiv(y.q, RMul(p, p)))

\* y ** 2
FSquare(y) == IF isnan(y) THEN NaN ELSE Num(y.q)

\* std < 1e-10.  A comparison with NaN is False.  The rationals of the
\* model have numerator and denominator below 2^31, so the square of the
\* standard deviation is below 1e-20 exactly when it is 0.
StdBelowThreshold(std) == (~ isnan(std)) /\ std.q.n = 0

---------------------------------------------------------------------------
(* The data frame of calculate_replications *)

Variable == "AvgEarnings"

\* Values of the Configuration column; MissingConfig is a NaN cell
ConfigNames == {"A", "B"}
Config(c) == [k |-> "str", s |-> c]
MissingConfig == [k |-> "nan", s |-> ""]
ConfigCells == {Config(c) : c \in ConfigNames} \cup {MissingConfig}

\* Cells of the variable column: numbers, text that converts to a number,
\* text that does not, and missing values
NumCell(v) == [k |-> "num", v |-> v, s |-> ""]
TextCell(s) == [k |-> "text", v |-> 0, s |-> s]
MissingCell == [k |-> "nan", v |-> 0, s |-> ""]
ValueCells == {NumCell(-3), NumCell(4), TextCell("3"), TextCell("x"),
               MissingCell}

Rows == [Configuration : ConfigCells, value : ValueCells]

RECURSIVE SeqsUpTo(_, _)
SeqsUpTo(S, n) ==
    IF n = 0 THEN {<<>>}
    ELSE LET shorter == SeqsUpTo(S, n - 1)
         IN  shorter \cup {Append(q, x) : q \in {r \in shorter : Len(r) = n - 1},
                                          x \in S}

\* pandas equality of cells: NaN is equal to nothing, not even itself
CellEq(a, b) == a.k # "nan" /\ b.k # "nan" /\ a = b

\* data['Configuration'].unique(): distinct cells in order of first
\* appearance; all NaN cells count as one value
RECURSIVE Unique(_)
Unique(cells) ==
    IF cells = <<>> THEN <<>>
    ELSE LET n == Len(cells)
             front == Unique(SubSeq(cells, 1, n - 1))
             last == cells[n]
         IN  IF \E i \in 1..Len(front) : front[i] = last
             THEN front ELSE Append(front, last)

\* pd.to_numeric(cell, errors='coerce'): an integer, or "nan"
ParsesAsNumber(s) == s \in {"3"}
ParsedNumber(s) == IF s = "3" THEN 3 ELSE 0
ToNumeric(cell) ==
    IF cell.k = "num" THEN [nan |-> FALSE, v |-> cell.v]
    ELSE IF cell.k = "text" /\ ParsesAsNumber(cell.s)
         THEN [nan |-> FALSE, v |-> ParsedNumber(cell.s)]
    ELSE [nan |-> TRUE, v |-> 0]

\* The values with the missing ones kept (as 0) instead of dropped
RECURSIVE ValuesOfKeepMissing(_, _)
ValuesOfKeepMissing(rows, config) ==
    IF rows = <<>> THEN <<>>
    ELSE LET n == Len(rows)
             front == ValuesOfKeepMissing(SubSeq(rows, 1, n - 1), config)
         IN  IF CellEq(rows[n].Configuration, config)
             THEN Append(front, ToNumeric(rows[n].value).v) ELSE front

\* pd.to_numeric(config_data[variable], errors='coerce').dropna().values
\* for config_data = data[data['Configuration'] == config]
RECURSIVE ValuesOf(_, _)
ValuesOf(rows, config) ==
    IF rows = <<>> THEN <<>>
    ELSE LET n == Len(rows)
             front == ValuesOf(SubSeq(rows, 1, n - 1), config)
             num == ToNumeric(rows[n].value)
         IN  IF CellEq(rows[n].Configuration, config) /\ ~ num.nan
             THEN Append(front, num.v) ELSE front

\* len(config_data)
RowCountOf(rows, config) ==
    Cardinality({i \in 1..Len(rows) : CellEq(rows[i].Configuration, config)})

RECURSIVE Sum(_)
Sum(values) ==
    IF values = <<>> THEN 0
    ELSE values[Len(values)] + Sum(SubSeq(values, 1, Len(values) - 1))

SumSq(values) == Sum([i \in 1..Len(values) |-> values[i] * values[i]])

\* np.mean(values)
Mean(values) == Rat(Sum(values), Len(values))

\* The population standard deviation (ddof=0): 0 for a single value
StdPopulation(values) ==
    LET n == Len(values)
    IN  Surd(Rat(n * SumSq(values) - Sum(values) * Sum(values), n * n))

\* np.std(values, ddof=1): NaN for a single value
Std(values) ==
    LET n == Len(values)
    IN  IF n <= 1 THEN NaN
        ELSE Surd(Rat(n * SumSq(values) - Sum(values) * Sum(values),
                      n * (n - 1)))

\* stats.t.ppf(1 - alpha/2, df) with alpha = 1 - confidence, for the
\* confidence levels of the model (in percent), to one decimal
Confidences == {90, 95}
TPpf(conf, df) ==
    LET t95 == <<127, 43, 32, 28, 26, 24, 24, 23>>
        t90 == <<63, 29, 24, 21, 20, 19, 19, 19>>
    IN  Rat(IF conf = 95 THEN t95[df] ELSE t90[df], 10)

\* A critical value taken at n instead of n - 1 degrees of freedom
TCriticalAtN(conf, n) ==
    IF n <= 1 THEN NaN ELSE Num(TPpf(conf, n))

\* lines 62-69: the critical value
TCritical(conf, n) ==
    IF n <= 1 THEN NaN ELSE Num(TPpf(conf, n - 1))

\* A precision that keeps the sign of the mean
AbsolutePrecisionSigned(rp, mean) ==
    IF mean.n # 0 THEN RMul(rp, mean) ELSE rp

\* lines 71-72
AbsolutePrecision(rp, mean) ==
    IF mean.n # 0 THEN RMul(rp, RAbs(mean)) ELSE rp

\* A half width that is not divided by sqrt(n)
CurrentHalfWidthOfOneValue(t_critical, std, n) ==
    IF isnan(t_critical) \/ n <= 1 THEN NaN
    ELSE FMul(t_critical, std)

\* lines 74-78
CurrentHalfWidth(t_critical, std, n) ==
    IF isnan(t_critical) \/ n <= 1 THEN NaN
    ELSE FMul(t_critical, FDivSqrt(std, n))

\* The required size without the test of line 82 on the standard deviation
RequiredNWithoutThreshold(t_critical, std, absolute_precision) ==
    LET x == FSquare(FDiv(FMul(t_critical, std), absolute_precision))
    IN  IF isnan(x) THEN [fin |-> FALSE, v |-> 0]
        ELSE [fin |-> TRUE, v |-> Ceil(x.q)]

\* lines 80-91; math.ceil raises on NaN and the bare except turns that
\* into infinity
RequiredN(t_critical, std, absolute_precision) ==
    IF StdBelowThreshold(std) THEN [fin |-> TRUE, v |-> 1]
    ELSE LET x == FSquare(FDiv(FMul(t_critical, std), absolute_precision))
         IN  IF isnan(x) THEN [fin |-> FALSE, v |-> 0]
             ELSE [fin |-> TRUE, v |-> Ceil(x.q)]

\* lines 93-100
CurrentCI(mean, current_half_width) ==
    IF isnan(current_half_width) \/ isinf(current_half_width)
    THEN <<NaN, NaN>>
    ELSE <<[k |-> "sum", mean |-> mean, sign |-> -1, hw |-> current_half_width],
           [k |-> "sum", mean |-> mean, sign |-> 1, hw |-> current_half_width]>>

\* lines 55-112: the dictionary entry of one configuration
Entry(config, values, rp, conf) ==
    LET n == Len(values)
        mean == Mean(values)
        std == Std(values)
        t_critical == TCritical(conf, n)
        absolute_precision == AbsolutePrecision(rp, mean)
        current_half_width == CurrentHalfWidth(t_critical, std, n)
    IN  [config |-> config,
         mean |-> mean,
         std |-> std,
         current_sample_size |-> n,
         current_half_width |-> current_half_width,
         current_ci |-> CurrentCI(mean, current_half_width),
         required_replications |-> RequiredN(t_critical, std, absolute_precision),
         absolute_precision |-> absolute_precision]

\* results[config] = entry on an insertion-ordered dict
DictSet(dict, entry) ==
    IF \E i \in 1..Len(dict) : dict[i].config = entry.config
    THEN [i \in 1..Len(dict) |->
            IF dict[i].config = entry.config THEN entry ELSE dict[i]]
    ELSE Append(dict, entry)

\* lines 41-112: the loop over the configurations
RECURSIVE Loop(_, _, _, _)
Loop(configurations, rows, rp, conf) ==
    IF configurations = <<>> THEN <<>>
    ELSE LET n == Len(configurations)
             dict == Loop(SubSeq(configurations, 1, n - 1), rows, rp, conf)
             config == configurations[n]
             values == ValuesOf(rows, config)
         IN  IF RowCountOf(rows, config) = 0 THEN dict
             ELSE IF Len(values) = 0 THEN dict
             ELSE DictSet(dict, Entry(config, values, rp, conf))

ConfigurationColumn(rows) == [i \in 1..Len(rows) |-> rows[i].Configuration]

---------------------------------------------------------------------------
(* calculate_replications *)

RelativePrecisions == {Rat(1, 10), Rat(1, 2)}
ColumnSets == {{"Configuration", Variable}, {"Configuration"}, {Variable}, {}}

ReplInputs ==
    /\ data_columns \in ColumnSets
    /\ data_rows \in SeqsUpTo(Rows, MaxRows)
    /\ relative_precision \in RelativePrecisions
    /\ confidence \in Confidences
    /\ calc_pc = "start"
    /\ calc_exc = "none"
    /\ results = <<>>
    /\ processed = <<>>
    /\ report_pc = "start"
    /\ report = <<>>

\* A column check that forgets the variable column
ColumnMissingConfigurationOnly(columns) == "Configuration" \notin columns

\* lines 32-38: the two column checks
ColumnMissing(columns) ==
    \/ "Configuration" \notin columns
    \/ Variable \notin columns

CalcRaise ==
    /\ calc_pc = "start"
    /\ ColumnMissing(data_columns)
    /\ calc_pc' = "raised"
    /\ calc_exc' = "ValueError"
    /\ UNCHANGED <<data_columns, data_rows, relative_precision, confidence,
                   results, processed, report_pc, report>>
    /\ UNCHANGED <<mergeVars, extractVars, loadVars, compareVars>>

\* lines 40-114
CalcReturn ==
    /\ calc_pc = "start"
    /\ ~ ColumnMissing(data_columns)
    /\ LET configurations == Unique(ConfigurationColumn(data_rows))
       IN  /\ processed' = configurations
           /\ results' = Loop(configurations, data_rows, relative_precision,
                              confidence)
    /\ calc_pc' = "returned"
    /\ UNCHANGED <<data_columns, data_rows, relative_precision, confidence,
                   calc_exc, report_pc, report>>
    /\ UNCHANGED <<mergeVars, extractVars, loadVars, compareVars>>

\* The state of a run that does not call calculate_replications directly
ReplIdle ==
    /\ data_columns = {}
    /\ data_rows = <<>>
    /\ relative_precision = Rat(1, 10)
    /\ confidence = 95
    /\ calc_pc = "idle"
    /\ calc_exc = "none"
    /\ results = <<>>
    /\ processed = <<>>
    /\ report_pc = "idle"
    /\ report = <<>>

---------------------------------------------------------------------------
(* generate_report *)

\* One line of the report: its label, what follows the label, and the
\* integer printed in it (0 when the line prints none).  The digits of the
\* formatted floats are not part of the model.
ReportLine(label, text, k) == [label |-> label, text |-> text, k |-> k]

\* lines 265-270: the half width and the interval
IntervalLines(result) ==
    IF ~ isnan(result.current_half_width) /\ ~ isinf(result.current_half_width)
    THEN <<ReportLine("Current half-width of CI", "value", 0),
           ReportLine("Current CI", "value", 0)>>
    ELSE <<ReportLine("Current half-width of CI", "Not calculable", 0),
           ReportLine("Current CI", "Not calculable", 0)>>

\* A status test that takes required = current as not yet sufficient
SufficientStrict(result) ==
    result.required_replications.v < result.current_sample_size

\* line 277
Sufficient(result) ==
    result.required_replications.v <= result.current_sample_size

\* lines 274-284: the required replications and the status
StatusLines(result) ==
    IF result.required_replications.fin
    THEN <<ReportLine("Required replications", "value",
                      result.required_replications.v),
           IF Sufficient(result)
           THEN ReportLine("Status", "Current replications are sufficient", 0)
           ELSE ReportLine("Status", "Need more replications",
                           result.required_replications.v
                               - result.current_sample_size)>>
    ELSE <<ReportLine("Required replications", "Cannot be determined", 0),
           ReportLine("Status", "Unable to calculate required replications", 0)>>

\* lines 258-286: the lines of one configuration
ReportBlock(result) ==
    [config |-> result.config,
     lines |-> <<ReportLine("Current sample size", "value",
                            result.current_sample_size)>>
               \o IntervalLines(result)
               \o <<ReportLine("Target precision", "value", 0)>>
               \o StatusLines(result)]

\* generate_report(results, variable), lines 239-288
generate_report(dict) == [i \in 1..Len(dict) |-> ReportBlock(dict[i])]

\* A call of generate_report on the dictionary calculate_replications returned
GenerateReport ==
    /\ calc_pc = "returned"
    /\ report_pc = "start"
    /\ report' = generate_report(results)
    /\ report_pc' = "returned"
    /\ UNCHANGED <<data_columns, data_rows, relative_precision, confidence,
                   calc_pc, calc_exc, results, processed>>
    /\ UNCHANGED <<mergeVars, extractVars, loadVars, compareVars>>

---------------------------------------------------------------------------
(* Claims about calculate_replications *)

Entries == {results[i] : i \in 1..Len(results)}

\* C1: for every configuration with n >= 2 numeric values and sample
\* standard deviation s >= 1e-10, required_replications is
\* ceil((t * s / p)^2) with t the two-sided Student-t critical value at
\* n - 1 degrees of freedom (n the current sample size) and p the
\* configuration's absolute_precision; current_half_width is
\* t * s / sqrt(n) and current_ci is (mean - half width, mean + half width).
C1_RequiredReplicationsFormula ==
    calc_pc = "returned" =>
        \A e \in Entries :
            LET n == e.current_sample_size
            IN  (n >= 2 /\ e.std.k = "surd" /\ e.std.q.n > 0) =>
                LET t == TPpf(confidence, n - 1)
                    t2s2 == RMul(RMul(t, t), e.std.q)
                    p == e.absolute_precision
                    hw == Surd(RDiv(t2s2, RInt(n)))
                IN  /\ e.required_replications.fin
                    /\ e.required_replications.v = Ceil(RDiv(t2s2, RMul(p, p)))
                    /\ e.current_half_width = hw
                    /\ e.current_ci[1] = [k |-> "sum", mean |-> e.mean,
                                          sign |-> -1, hw |-> hw]
                    /\ e.current_ci[2] = [k |-> "sum", mean |-> e.mean,
                                          sign |-> 1, hw |-> hw]

C1_Witness ==
    /\ calc_pc = "returned"
    /\ \E e \in Entries :
          /\ e.current_sample_size = 3
          /\ e.std.k = "surd" /\ e.std.q.n > 0
          /\ e.required_replications.fin
          /\ e.required_replications.v > e.current_sample_size

\* C2: calculate_replications raises ValueError when the data has no
\* 'Configuration' column or no column named by variable, before any
\* configuration is processed, so no partial results are returned.
C2_ValueErrorOnMissingColumn ==
    (calc_pc # "start" /\ ("Configuration" \notin data_columns
                           \/ Variable \notin data_columns)) =>
        /\ calc_pc = "raised"
        /\ calc_exc = "ValueError"
        /\ processed = <<>>
        /\ results = <<>>

C2_Witness ==
    /\ calc_pc = "raised"
    /\ calc_exc = "ValueError"
    /\ "Configuration" \in data_columns
    /\ Variable \notin data_columns
    /\ Len(data_rows) > 0

\* C3: the returned dictionary has exactly one entry for each distinct
\* Configuration value with at least one value convertible to a number,
\* no entry for a configuration whose values are all missing or
\* non-numeric, and current_sample_size is the number of numeric
\* non-missing values of the configuration.
IsNumeric(cell) == cell.k = "num" \/ (cell.k = "text" /\ cell.s = "3")
NumericRowsOf(c) ==
    {i \in 1..Len(data_rows) : /\ data_rows[i].Configuration = Config(c)
                               /\ IsNumeric(data_rows[i].value)}
EntryIndexesOf(cell) == {i \in 1..Len(results) : results[i].config = cell}

C3_OneEntryPerNumericConfiguration ==
    calc_pc = "returned" =>
        /\ \A c \in ConfigNames :
              IF NumericRowsOf(c) # {}
              THEN /\ Cardinality(EntryIndexesOf(Config(c))) = 1
                   /\ \A i \in EntryIndexesOf(Config(c)) :
                         results[i].current_sample_size
                            = Cardinality(NumericRowsOf(c))
              ELSE EntryIndexesOf(Config(c)) = {}
        /\ \A e \in Entries : \E c \in ConfigNames : e.config = Config(c)

C3_Witness ==
    /\ calc_pc = "returned"
    /\ Len(results) = 1
    /\ results[1].config = Config("B")
    /\ results[1].current_sample_size = 1
    /\ \E i \in 1..Len(data_rows) :
          /\ data_rows[i].Configuration = Config("A")
          /\ data_rows[i].value = TextCell("x")
    /\ \E i \in 1..Len(data_rows) :
          /\ data_rows[i].Configuration = Config("B")
          /\ data_rows[i].value = MissingCell

---------------------------------------------------------------------------
(* merge_csv_files.py: the files *)

MaxFiles == 3

\* Paths are sequences of components; None is the empty sequence
None == <<>>
ResultsFile == <<"courier_experiment_results_1.csv">>
ResultsFileInDir == <<"data", "courier_experiment_results_1.csv">>
ResultsMerged == <<"courier_experiment_results_merged.csv">>
DefaultOutput == <<"merged_experiments_TIMESTAMP.csv">>
Paths == {ResultsFile, ResultsFileInDir, ResultsMerged}

\* A path that leaves the directories out of the base name
FullPath(path) == path

\* os.path.basename(file)
Basename(path) == <<path[Len(path)]>>

\* glob.glob("courier_experiment_results_*.csv") matches files of the
\* current directory only
MatchesPattern(path) ==
    /\ Len(path) = 1
    /\ path[1] \in {"courier_experiment_results_1.csv",
                    "courier_experiment_results_merged.csv"}

\* Frames.  A row carries the cells of the columns Configuration,
\* AvgEarnings (value) and SourceFile; a column the frame does not have
\* holds missing cells (None as SourceFile).
NoFrame == [k |-> "none", columns |-> {}, rows |-> <<>>]
Frame(columns, rows) == [k |-> "frame", columns |-> columns, rows |-> rows]
Row(c, v, src) == [Configuration |-> c, value |-> v, SourceFile |-> src]

\* Files on disk: missing, not parseable as CSV, or a CSV frame
MissingFile == [k |-> "missing", columns |-> {}, rows |-> <<>>]
CorruptFile == [k |-> "corrupt", columns |-> {}, rows |-> <<>>]
FileA == Frame({"Configuration", Variable},
               <<Row(Config("A"), NumCell(1), None)>>)
FileB == Frame({"Configuration", Variable, "SourceFile"},
               <<Row(Config("A"), TextCell("3"), <<"old.csv">>),
                 Row(Config("B"), NumCell(-1), <<"old.csv">>)>>)
FileHeaderOnly == Frame({"Configuration"}, <<>>)
FileStates == {MissingFile, CorruptFile, FileA, FileB, FileHeaderOnly}

\* list.remove(x): removes the first occurrence
RECURSIVE RemoveFirst(_, _)
RemoveFirst(list, x) ==
    IF list = <<>> THEN <<>>
    ELSE IF Head(list) = x THEN Tail(list)
    ELSE <<Head(list)>> \o RemoveFirst(Tail(list), x)

Contains(list, x) == \E i \in 1..Len(list) : list[i] = x

\* pd.read_csv(file) succeeds
Readable(files, file) == files[file].k = "frame"

\* lines 55-59: the frame of one file, with the source column if requested
ReadFrame(files, file, add) ==
    LET df == files[file]
    IN  IF add
        THEN Frame(df.columns \cup {"SourceFile"},
                   [i \in 1..Len(df.rows) |->
                       [df.rows[i] EXCEPT !.SourceFile = Basename(file)]])
        ELSE df

\* A reading loop that stops at the first file that cannot be read
RECURSIVE ReadAllUntilError(_, _, _)
ReadAllUntilError(files, list, add) ==
    IF list = <<>> THEN <<>>
    ELSE IF Readable(files, Head(list))
         THEN <<ReadFrame(files, Head(list), add)>>
              \o ReadAllUntilError(files, Tail(list), add)
         ELSE <<>>

\* lines 51-65: all_data after the loop; a failing read is caught
RECURSIVE ReadAll(_, _, _)
ReadAll(files, list, add) ==
    IF list = <<>> THEN <<>>
    ELSE (IF Readable(files, Head(list))
          THEN <<ReadFrame(files, Head(list), add)>> ELSE <<>>)
         \o ReadAll(files, Tail(list), add)

\* lines 63 and 65: the message printed for each file
ReadMessages(files, list) ==
    [i \in 1..Len(list) |->
        IF Readable(files, list[i])
        THEN [m |-> "Successfully read", file |-> list[i]]
        ELSE [m |-> "Error reading", file |-> list[i]]]

\* pd.concat(all_data, ignore_index=True)
RECURSIVE Concat(_)
Concat(frames) ==
    IF frames = <<>> THEN Frame({}, <<>>)
    ELSE LET rest == Concat(Tail(frames))
         IN  Frame(Head(frames).columns \cup rest.columns,
                   Head(frames).rows \o rest.rows)

\* lines 80-83: merged_df['SourceFile'].value_counts()
ValueCounts(df) ==
    {[m |-> "rows of", file |-> src,
      n |-> Cardinality({i \in 1..Len(df.rows) : df.rows[i].SourceFile = src})] :
        src \in {df.rows[i].SourceFile : i \in 1..Len(df.rows)}}

\* Values returned by merge_csv_files
NotReturned == [k |-> "unset", path |-> None, df |-> NoFrame]
ReturnNone == [k |-> "None", path |-> None, df |-> NoFrame]
ReturnTuple(path, df) == [k |-> "tuple", path |-> path, df |-> df]
ReturnStr(path) == [k |-> "str", path |-> path, df |-> NoFrame]

\* lines 28-85 of merge_csv_files; globbed is the list glob.glob returns
MergeOutcome(files, in_files, out, add, globbed) ==
    LET files0 == IF in_files.none THEN globbed ELSE in_files.v
        files1 == IF out # None /\ Contains(files0, out)
                  THEN RemoveFirst(files0, out) ELSE files0
        out1 == IF out = None THEN DefaultOutput ELSE out
        all_data == ReadAll(files, files1, add)
        merged_df == Concat(all_data)
        listing == [i \in 1..Len(files1) |-> [m |-> "-", file |-> files1[i]]]
    IN  IF files1 = <<>>
        THEN [ret |-> ReturnNone, list |-> files1, reads |-> <<>>,
              written |-> [path |-> None, df |-> NoFrame],
              prints |-> <<[m |-> "No CSV files found for merging", file |-> None]>>,
              summary |-> {}]
        ELSE IF all_data = <<>>
        THEN [ret |-> ReturnNone, list |-> files1, reads |-> files1,
              written |-> [path |-> None, df |-> NoFrame],
              prints |-> <<[m |-> "Merging", file |-> None]>> \o listing
                         \o ReadMessages(files, files1)
                         \o <<[m |-> "No data could be read from the input files",
                               file |-> None]>>,
              summary |-> {}]
        ELSE [ret |-> ReturnTuple(out1, merged_df), list |-> files1,
              reads |-> files1,
              written |-> [path |-> out1, df |-> merged_df],
              prints |-> <<[m |-> "Merging", file |-> None]>> \o listing
                         \o ReadMessages(files, files1)
                         \o <<[m |-> "Merged data has", file |-> None],
                              [m |-> "Merged CSV saved to", file |-> out1]>>
                         \o (IF add
                             THEN <<[m |-> "Rows contributed by each file:",
                                     file |-> None]>>
                             ELSE <<>>),
              summary |-> IF add THEN ValueCounts(merged_df) ELSE {}]

\* glob.glob: the existing files that match, in an order the file system
\* chooses
Orderings(S) ==
    {q \in [1..Cardinality(S) -> S] : {q[i] : i \in 1..Cardinality(S)} = S}
GlobResults(files) ==
    Orderings({path \in Paths : /\ MatchesPattern(path)
                                   /\ files[path].k # "missing"})

NoneList == [none |-> TRUE, v |-> <<>>]
List(l) == [none |-> FALSE, v |-> l]

MergeInputs ==
    /\ fs \in [Paths -> FileStates]
    /\ input_files \in {NoneList} \cup {List(l) : l \in SeqsUpTo(Paths, MaxFiles)}
    /\ output_file \in {None} \cup Paths
    /\ add_source_column \in BOOLEAN
    /\ merge_pc = "start"
    /\ merge_ret = NotReturned
    /\ reads = <<>>
    /\ written = [path |-> None, df |-> NoFrame]
    /\ prints = <<>>
    /\ summary = {}
    /\ main_pc = "start"
    /\ main_exc = "none"
    /\ main_log = <<>>

\* The state of a run that does not call merge_csv_files
MergeIdle ==
    /\ fs = [path \in Paths |-> MissingFile]
    /\ input_files = NoneList
    /\ output_file = None
    /\ add_source_column = TRUE
    /\ merge_pc = "idle"
    /\ merge_ret = NotReturned
    /\ reads = <<>>
    /\ written = [path |-> None, df |-> NoFrame]
    /\ prints = <<>>
    /\ summary = {}
    /\ main_pc = "idle"
    /\ main_exc = "none"
    /\ main_log = <<>>

\* merge_csv_files(input_files, output_file, add_source_column), lines 10-85.
\* input_files.remove changes the caller's list.
MergeCsvFiles ==
    /\ merge_pc = "start"
    /\ main_pc = "start"
    /\ \E globbed \in GlobResults(fs) :
          LET o == MergeOutcome(fs, input_files, output_file,
                                add_source_column, globbed)
          IN  /\ merge_ret' = o.ret
              /\ input_files' = IF input_files.none THEN input_files
                                ELSE List(o.list)
              /\ reads' = o.reads
              /\ written' = o.written
              /\ prints' = o.prints
              /\ summary' = o.summary
    /\ merge_pc' = "returned"
    /\ main_pc' = "idle"
    /\ UNCHANGED <<fs, output_file, add_source_column, main_exc, main_log>>
    /\ UNCHANGED <<replVars, extractVars, loadVars, compareVars>>

\* lines 385-432 of main once merge_csv_files returned ret: the log of the
\* messages and steps, and how main ends
MainAfterMerge(ret) ==
    IF ret.k # "tuple"
    THEN \* line 385: a value that is not a pair cannot be unpacked
         [pc |-> "raised", exc |-> "TypeError", log |-> <<>>,
          calc |-> "idle", results |-> <<>>]
    ELSE IF ret.df.k = "none"
    THEN [pc |-> "returned", exc |-> "none",
          log |-> <<"Error: Could not merge CSV files. Exiting.">>,
          calc |-> "idle", results |-> <<>>]
    ELSE IF Variable \notin ret.df.columns
    THEN [pc |-> "returned", exc |-> "none",
          log |-> <<"Error: Variable not found in the merged data.">>,
          calc |-> "idle", results |-> <<>>]
    ELSE IF ColumnMissing(ret.df.columns)
    THEN [pc |-> "returned", exc |-> "none",
          log |-> <<"calculate_replications", "Error during analysis">>,
          calc |-> "raised", results |-> <<>>]
    ELSE LET res == Loop(Unique(ConfigurationColumn(ret.df.rows)),
                         ret.df.rows, Rat(1, 10), 95)
         IN  IF res = <<>>
             THEN [pc |-> "returned", exc |-> "none",
                   log |-> <<"calculate_replications",
                             "No valid configurations found for analysis.">>,
                   calc |-> "returned", results |-> res]
             ELSE [pc |-> "returned", exc |-> "none",
                   log |-> <<"calculate_replications", "generate_report",
                             "Report saved", "plot_required_replications",
                             "plot_confidence_intervals", "Analysis complete.">>,
                   calc |-> "returned", results |-> res]

\* main(), lines 379-437: merge_csv_files() is called with its defaults
Main ==
    /\ main_pc = "start"
    /\ merge_pc = "start"
    /\ input_files = NoneList
    /\ output_file = None
    /\ add_source_column = TRUE
    /\ \E globbed \in GlobResults(fs) :
          LET o == MergeOutcome(fs, input_files, output_file,
                                add_source_column, globbed)
              r == MainAfterMerge(o.ret)
          IN  /\ merge_ret' = o.ret
              /\ reads' = o.reads
              /\ written' = o.written
              /\ prints' = o.prints
              /\ summary' = o.summary
              /\ main_pc' = r.pc
              /\ main_exc' = r.exc
              /\ main_log' = r.log
              /\ calc_pc' = r.calc
              /\ calc_exc' = IF r.calc = "raised" THEN "ValueError" ELSE "none"
              /\ results' = r.results
              /\ data_columns' = o.ret.df.columns
              /\ data_rows' = [i \in 1..Len(o.ret.df.rows) |->
                                 [Configuration |-> o.ret.df.rows[i].Configuration,
                                  value |-> o.ret.df.rows[i].value]]
              /\ processed' = IF r.calc = "returned"
                              THEN Unique(ConfigurationColumn(o.ret.df.rows))
                              ELSE <<>>
              /\ report_pc' = IF r.results # <<>> THEN "returned" ELSE "idle"
              /\ report' = generate_report(r.results)
    /\ merge_pc' = "returned"
    /\ UNCHANGED <<fs, input_files, output_file, add_source_column,
                   relative_precision, confidence>>
    /\ UNCHANGED <<extractVars, loadVars, compareVars>>

---------------------------------------------------------------------------
(* analyze_courier_experiments.py: extract_parameter *)

MaxPieces == 4

\* Strings are sequences of characters
AutonomyLevel == <<"a", "u", "t", "o", "n", "o", "m", "y", "-",
                   "l", "e", "v", "e", "l">>
UseMemory == <<"u", "s", "e", "-", "m", "e", "m", "o", "r", "y">>
ParamNames == {AutonomyLevel, UseMemory}

\* Configuration strings are built from these pieces
Pieces == {AutonomyLevel \o <<"=">>, UseMemory \o <<"=">>,
           <<"m", "a", "x", "-">>, <<"_">>, <<"5">>, <<"0", ".", "5">>,
           <<"t", "r", "u", "e">>, <<"T", "r", "u", "e">>}

RECURSIVE Flatten(_)
Flatten(pieces) ==
    IF pieces = <<>> THEN <<>> ELSE Head(pieces) \o Flatten(Tail(pieces))

\* A missing Configuration cell reaches extract_parameter as a float
NotAString == [isstr |-> FALSE, text |-> <<>>]
Str(text) == [isstr |-> TRUE, text |-> text]

\* str.lower() left out
NotLowered(text) == text

\* str.lower() on the letters of the model
Lower(text) ==
    [i \in 1..Len(text) |->
        CASE text[i] = "T" -> "t"
          [] text[i] = "R" -> "r"
          [] text[i] = "U" -> "u"
          [] text[i] = "E" -> "e"
          [] OTHER -> text[i]]

\* The pattern rf"{param_name}=([^_]+)" matches at position i
MatchesAt(text, name, i) ==
    LET k == Len(name)
    IN  /\ i + k + 1 <= Len(text)
        /\ SubSeq(text, i, i + k - 1) = name
        /\ text[i + k] = "="
        /\ text[i + k + 1] # "_"

\* re.search: the leftmost position where the pattern matches, 0 if none
SearchStart(text, name) ==
    IF \E i \in 1..Len(text) : MatchesAt(text, name, i)
    THEN CHOOSE i \in 1..Len(text) :
            /\ MatchesAt(text, name, i)
            /\ \A j \in 1..(i - 1) : ~ MatchesAt(text, name, j)
    ELSE 0

\* The longest run of characters other than '_' that starts at position i
RECURSIVE RunFrom(_, _)
RunFrom(text, i) ==
    IF i > Len(text) \/ text[i] = "_" THEN <<>>
    ELSE <<text[i]>> \o RunFrom(text, i + 1)

\* match.group(1)
Group1(text, name) ==
    RunFrom(text, SearchStart(text, name) + Len(name) + 1)

\* float(value) for texts of digits and '.'
IsDigit(c) == c \in {"0", "5"}
DigitValue(c) == IF c = "5" THEN 5 ELSE 0
Dots(text) == {i \in 1..Len(text) : text[i] = "."}
ParsesAsFloat(text) ==
    /\ \A i \in 1..Len(text) : IsDigit(text[i]) \/ text[i] = "."
    /\ Cardinality(Dots(text)) <= 1
    /\ \E i \in 1..Len(text) : IsDigit(text[i])

RECURSIVE DigitsValue(_)
DigitsValue(text) ==
    IF text = <<>> THEN 0
    ELSE LET n == Len(text)
             front == DigitsValue(SubSeq(text, 1, n - 1))
         IN  IF text[n] = "." THEN front ELSE 10 * front + DigitValue(text[n])

RECURSIVE Pow10(_)
Pow10(k) == IF k = 0 THEN 1 ELSE 10 * Pow10(k - 1)

Float(text) ==
    LET decimals == IF Dots(text) = {} THEN 0
                    ELSE Len(text) - (CHOOSE i \in Dots(text) : TRUE)
    IN  Rat(DigitsValue(text), Pow10(decimals))

\* Values returned by extract_parameter
RetNone == [k |-> "None", b |-> FALSE, q |-> RInt(0), text |-> <<>>]
RetBool(b) == [k |-> "bool", b |-> b, q |-> RInt(0), text |-> <<>>]
RetFloat(q) == [k |-> "float", b |-> FALSE, q |-> q, text |-> <<>>]
RetStr(text) == [k |-> "str", b |-> FALSE, q |-> RInt(0), text |-> text]
NotCalled == [k |-> "unset", b |-> FALSE, q |-> RInt(0), text |-> <<>>]

\* extract_parameter(config_str, param_name, is_bool), lines 66-84
extract_parameter(config, name, bool) ==
    IF ~ config.isstr THEN RetNone
    ELSE IF SearchStart(config.text, name) = 0 THEN RetNone
    ELSE LET value == Group1(config.text, name)
         IN  IF bool THEN RetBool(Lower(value) = <<"t", "r", "u", "e">>)
             ELSE IF ParsesAsFloat(value) THEN RetFloat(Float(value))
             ELSE RetStr(value)

ConfigStrings ==
    {NotAString} \cup {Str(Flatten(ps)) : ps \in SeqsUpTo(Pieces, MaxPieces)}

ExtractInputs ==
    /\ config_str \in ConfigStrings
    /\ param_name \in ParamNames
    /\ is_bool \in BOOLEAN
    /\ ep_pc = "start"
    /\ ep_ret = NotCalled

ExtractIdle ==
    /\ config_str = NotAString
    /\ param_name = AutonomyLevel
    /\ is_bool = FALSE
    /\ ep_pc = "idle"
    /\ ep_ret = NotCalled

ExtractParameter ==
    /\ ep_pc = "start"
    /\ ep_ret' = extract_parameter(config_str, param_name, is_bool)
    /\ ep_pc' = "returned"
    /\ UNCHANGED <<config_str, param_name, is_bool>>
    /\ UNCHANGED <<replVars, mergeVars, loadVars, compareVars>>

---------------------------------------------------------------------------
(* analyze_courier_experiments.py: load_and_parse_csv and main *)

MaxLoadRows == 2

\* Cells of the Run column: text, or a number read by pandas
RunText(text) == [isstr |-> TRUE, text |-> text, n |-> 0]
RunNumber(n) == [isstr |-> FALSE, text |-> <<>>, n |-> n]
RunCells == {RunText(<<"r", "u", "n", "_", "1">>),
             RunText(<<"r", "u", "n", "_", "x">>),
             RunText(<<"r", "u", "n", "_">>),
             RunText(<<"r", "u", "n">>),
             RunNumber(7)}

\* Cells of the Configuration column
CooperativenessLevel ==
    <<"c", "o", "o", "p", "e", "r", "a", "t", "i", "v", "e", "n", "e", "s",
      "s", "-", "l", "e", "v", "e", "l">>
LoadConfigCells ==
    {NotAString,
     Str(AutonomyLevel \o <<"=", "5", "_">> \o CooperativenessLevel
         \o <<"=", "5", "_">> \o UseMemory \o <<"=", "T", "r", "u", "e">>),
     Str(<<"m", "a", "x", "-">> \o AutonomyLevel \o <<"=", "0", ".", "5">>)}

\* The columns of the CSV file.  "Metrics" stands for the expected metric
\* columns other than the ones named apart: "DeliveriesPerCourierSD", and
\* "OpenOrders" for AvgOpenOrders and MaxOpenOrders.
LoadColumns ==
    {"Run", "Configuration", "Metrics", "DeliveriesPerCourierSD", "OpenOrders"}
LoadRows == [Run : RunCells, Configuration : LoadConfigCells]
CsvFiles ==
    {MissingFile, CorruptFile}
    \cup {Frame(columns, rows) : columns \in SUBSET LoadColumns,
                                 rows \in SeqsUpTo(LoadRows, MaxLoadRows)}

\* x.split('_')[1] for a text that contains '_'
FirstUnderscore(text) ==
    CHOOSE i \in 1..Len(text) :
        text[i] = "_" /\ \A j \in 1..(i - 1) : text[j] # "_"
SplitField1(text) == RunFrom(text, FirstUnderscore(text) + 1)

\* int(text) succeeds; the texts of the model hold no sign or blank
IsDecimalDigit(c) == c \in {"0", "1", "5"}
IntParses(text) ==
    text # <<>> /\ \A i \in 1..Len(text) : IsDecimalDigit(text[i])
IntValue(text) == IF text = <<"1">> THEN 1 ELSE 0

HasUnderscore(text) == \E i \in 1..Len(text) : text[i] = "_"

\* line 23: the lambda applied to a Run cell raises ValueError
RunRaises(x) ==
    x.isstr /\ HasUnderscore(x.text) /\ ~ IntParses(SplitField1(x.text))

\* line 23: the value of the lambda when it does not raise
RunValue(x) ==
    IF x.isstr /\ HasUnderscore(x.text)
    THEN RunNumber(IntValue(SplitField1(x.text))) ELSE x

\* lines 20-57 on one row
ParsedRow(row) ==
    [Run |-> RunValue(row.Run),
     Configuration |-> row.Configuration,
     AutonomyLevel |-> extract_parameter(row.Configuration, AutonomyLevel, FALSE),
     CooperativenessLevel |->
         extract_parameter(row.Configuration, CooperativenessLevel, FALSE),
     UseMemory |-> extract_parameter(row.Configuration, UseMemory, TRUE)]

\* lines 19-60: the body of the try block: the first exception raised, or
\* the parsed frame
LoadBody(file) ==
    IF file.k = "missing" THEN [exc |-> "FileNotFoundError", df |-> NoFrame]
    ELSE IF file.k = "corrupt" THEN [exc |-> "ParserError", df |-> NoFrame]
    ELSE IF "Run" \notin file.columns THEN [exc |-> "KeyError", df |-> NoFrame]
    ELSE IF \E i \in 1..Len(file.rows) : RunRaises(file.rows[i].Run)
         THEN [exc |-> "ValueError", df |-> NoFrame]
    ELSE IF "Configuration" \notin file.columns
         THEN [exc |-> "KeyError", df |-> NoFrame]
    ELSE [exc |-> "none",
          df |-> Frame(file.columns \cup {"AutonomyLevel", "CooperativenessLevel",
                                          "UseMemory", "MemoryFade"},
                       [i \in 1..Len(file.rows) |-> ParsedRow(file.rows[i])])]

\* An except clause that only handles a missing file
CaughtFileNotFoundOnly(exc) == exc = "FileNotFoundError"

\* line 62: except Exception
Caught(exc) ==
    exc \in {"FileNotFoundError", "ParserError", "KeyError", "ValueError"}

\* load_and_parse_csv(file_path), lines 13-64
LoadOutcome(file) ==
    LET body == LoadBody(file)
    IN  IF body.exc = "none"
        THEN [pc |-> "returned", exc |-> "none", caught |-> "none",
              ret |-> body.df,
              prints |-> <<"Loading data", "Successfully loaded data">>]
        ELSE IF Caught(body.exc)
        THEN [pc |-> "returned", exc |-> "none", caught |-> body.exc,
              ret |-> NoFrame,
              prints |-> <<"Loading data", "Error loading data">>]
        ELSE [pc |-> "raised", exc |-> body.exc, caught |-> "none",
              ret |-> NoFrame, prints |-> <<"Loading data">>]

\* An order of the steps that draws the plots before the workload analysis
AnalysisStepsPlotsFirst ==
    <<"summarize_experiment", "analyze_by_configuration",
      "compare_autonomy_levels", "compare_cooperativeness_levels",
      "analyze_memory_effects", "generate_visualizations",
      "analyze_workload_balance", "compare_configurations_statistically",
      "analyze_parameter_effects", "save_results_to_excel">>

\* lines 1236-1257 of main: the analysis steps in call order
AnalysisSteps ==
    <<"summarize_experiment", "analyze_by_configuration",
      "compare_autonomy_levels", "compare_cooperativeness_levels",
      "analyze_memory_effects", "analyze_workload_balance",
      "compare_configurations_statistically", "analyze_parameter_effects",
      "generate_visualizations", "save_results_to_excel">>

\* df[col].isna().all() for a parameter column of the parsed frame
AllMissing(df, col) ==
    \A i \in 1..Len(df.rows) : df.rows[i][col] = RetNone

\* The columns a step selects without testing that they exist; selecting one
\* that the frame does not hold raises KeyError.
\*   summarize_experiment, line 103; analyze_by_configuration, line 125;
\*   compare_autonomy_levels, lines 143-160 (after the early return of line
\*   143); compare_cooperativeness_levels, lines 169-186; analyze_memory_effects,
\*   lines 195-228; analyze_workload_balance, lines 240 and 251;
\*   generate_visualizations, lines 760, 775, 784-790 and 806.
\* compare_configurations_statistically (line 1045), analyze_parameter_effects
\* (line 1141) and save_results_to_excel test each column before they use it.
StepRequires(step, df) ==
    CASE step = "summarize_experiment" -> {"Metrics", "OpenOrders"}
      [] step = "analyze_by_configuration" -> {"Metrics", "OpenOrders"}
      [] step = "compare_autonomy_levels" ->
             IF AllMissing(df, "AutonomyLevel") THEN {}
             ELSE {"Metrics", "OpenOrders"}
      [] step = "compare_cooperativeness_levels" ->
             IF AllMissing(df, "CooperativenessLevel") THEN {}
             ELSE {"Metrics", "OpenOrders"}
      [] step = "analyze_memory_effects" ->
             IF AllMissing(df, "UseMemory") THEN {}
             ELSE {"Metrics", "OpenOrders"}
      [] step = "analyze_workload_balance" ->
             {"AutonomyLevel", "Metrics", "DeliveriesPerCourierSD"}
      [] step = "generate_visualizations" ->
             {"Configuration", "Metrics", "DeliveriesPerCourierSD",
              "AutonomyLevel", "CooperativenessLevel"}
      [] OTHER -> {}

\* line 251: analyze_workload_balance adds a column to the frame it was given
StepAdds(step) ==
    IF step = "analyze_workload_balance" THEN {"EfficiencyToBalanceRatio"}
    ELSE {}

\* plot_efficiency_balance_ratio, lines 357-381: the two early returns
PlotEfficiencyBalanceRatio(df) ==
    <<"plot_efficiency_balance_ratio">> \o
    (IF ~ ({"AutonomyLevel", "CooperativenessLevel", "EfficiencyToBalanceRatio"}
              \subseteq df.columns)
     THEN <<"Missing required columns for efficiency-balance ratio scatter plot">>
     ELSE IF \A i \in 1..Len(df.rows) :
                 \/ df.rows[i].AutonomyLevel = RetNone
                 \/ df.rows[i].CooperativenessLevel = RetNone
     THEN <<"No valid data for efficiency-balance ratio scatter plot">>
     ELSE <<>>)

\* plot_efficiency_balance_heatmap, lines 453-467: the early return
PlotEfficiencyBalanceHeatmap(df) ==
    <<"plot_efficiency_balance_heatmap">> \o
    (IF ~ ({"AutonomyLevel", "CooperativenessLevel", "EfficiencyToBalanceRatio",
            "Metrics", "DeliveriesPerCourierSD"} \subseteq df.columns)
     THEN <<"Missing required columns for enhanced heatmap">>
     ELSE <<>>)

\* plot_open_orders_visualizations, lines 531-545: the early return
PlotOpenOrdersVisualizations(df) ==
    <<"plot_open_orders_visualizations">> \o
    (IF ~ ("OpenOrders" \in df.columns)
     THEN <<"Missing required columns for open orders visualizations">>
     ELSE <<>>)

\* What a step that does not raise prints; generate_visualizations, lines
\* 801-803, calls the three plot functions in this order.  The drawing calls
\* themselves are taken to succeed.
StepLog(step, df) ==
    IF step = "generate_visualizations"
    THEN <<step>> \o PlotEfficiencyBalanceRatio(df)
                  \o PlotEfficiencyBalanceHeatmap(df)
                  \o PlotOpenOrdersVisualizations(df)
    ELSE <<step>>

\* lines 1236-1254: the steps run one after the other on the same frame until
\* one raises
RECURSIVE RunSteps(_, _, _)
RunSteps(steps, df, log) ==
    IF steps = <<>>
    THEN [pc |-> "returned", exc |-> "none", columns |-> df.columns,
          log |-> log \o <<"Analysis completed successfully!">>]
    ELSE LET step == Head(steps)
         IN  IF ~ (StepRequires(step, df) \subseteq df.columns)
             THEN [pc |-> "raised", exc |-> "KeyError", columns |-> df.columns,
                   log |-> log \o <<step>>]
             ELSE RunSteps(Tail(steps),
                           Frame(df.columns \cup StepAdds(step), df.rows),
                           log \o StepLog(step, df))

\* main(), lines 1226-1257, once load_and_parse_csv ended with outcome o
AnalyzeOutcome(o) ==
    IF o.pc = "raised"
    THEN [pc |-> "raised", exc |-> o.exc, columns |-> {}, log |-> <<>>]
    ELSE IF o.ret.k = "none" \/ Len(o.ret.rows) = 0
    THEN [pc |-> "returned", exc |-> "none", columns |-> o.ret.columns,
          log |-> <<"No data to analyze. Exiting.">>]
    ELSE RunSteps(AnalysisSteps, o.ret, <<>>)

LoadInputs ==
    /\ csv_file \in CsvFiles
    /\ load_pc = "start"
    /\ load_exc = "none"
    /\ load_caught = "none"
    /\ load_ret = NoFrame
    /\ load_prints = <<>>
    /\ am_pc = "start"
    /\ am_exc = "none"
    /\ am_log = <<>>
    /\ am_columns = {}

LoadIdle ==
    /\ csv_file = MissingFile
    /\ load_pc = "idle"
    /\ load_exc = "none"
    /\ load_caught = "none"
    /\ load_ret = NoFrame
    /\ load_prints = <<>>
    /\ am_pc = "idle"
    /\ am_exc = "none"
    /\ am_log = <<>>
    /\ am_columns = {}

\* A direct call of load_and_parse_csv
LoadAndParseCsv ==
    /\ load_pc = "start"
    /\ am_pc = "start"
    /\ LET o == LoadOutcome(csv_file)
       IN  /\ load_pc' = o.pc
           /\ load_exc' = o.exc
           /\ load_caught' = o.caught
           /\ load_ret' = o.ret
           /\ load_prints' = o.prints
    /\ am_pc' = "idle"
    /\ UNCHANGED <<csv_file, am_exc, am_log, am_columns>>
    /\ UNCHANGED <<replVars, mergeVars, extractVars, compareVars>>

\* A run of main
AnalyzeMain ==
    /\ load_pc = "start"
    /\ am_pc = "start"
    /\ LET o == LoadOutcome(csv_file)
           r == AnalyzeOutcome(o)
       IN  /\ load_pc' = o.pc
           /\ load_exc' = o.exc
           /\ load_caught' = o.caught
           /\ load_ret' = o.ret
           /\ load_prints' = o.prints
           /\ am_pc' = r.pc
           /\ am_exc' = r.exc
           /\ am_log' = r.log
           /\ am_columns' = r.columns
    /\ UNCHANGED csv_file
    /\ UNCHANGED <<replVars, mergeVars, extractVars, compareVars>>

---------------------------------------------------------------------------
(* analyze_courier_experiments.py: compare_configurations_statistically *)

MaxCompareRows == 4

RAdd(p, q) == Rat(p.n * q.d + q.n * p.d, p.d * q.d)
RSub(p, q) == Rat(p.n * q.d - q.n * p.d, p.d * q.d)

\* lines 1028-1033: the key metrics of the model, in list order
KeyMetrics == <<"TotalDeliveries", "AvgEarnings">>

\* Frames: every row has a Configuration cell and a cell for each metric;
\* the cells of a column the frame does not have are not looked at
CompareCells == {NumCell(1), NumCell(3), MissingCell}
CompareRow(c, v) ==
    [Configuration |-> c, TotalDeliveries |-> NumCell(1), AvgEarnings |-> v]
CompareRows == {CompareRow(c, v) : c \in ConfigCells, v \in CompareCells}
CompareFrames ==
    {Frame({"Configuration"} \cup metrics, rows) :
        metrics \in SUBSET {"TotalDeliveries", "AvgEarnings"},
        rows \in SeqsUpTo(CompareRows, MaxCompareRows)}

\* df[df['Configuration'] == config][metric].dropna()
RECURSIVE MetricData(_, _, _)
MetricData(rows, config, metric) ==
    IF rows = <<>> THEN <<>>
    ELSE LET n == Len(rows)
             front == MetricData(SubSeq(rows, 1, n - 1), config, metric)
         IN  IF CellEq(rows[n].Configuration, config) /\ rows[n][metric].k = "num"
             THEN Append(front, rows[n][metric].v) ELSE front

\* The sample variance of at least two values
Variance(values) ==
    LET n == Len(values)
    IN  Rat(n * SumSq(values) - Sum(values) * Sum(values), n * (n - 1))

\* p-values: the two-sided p-value is a function of the squared Welch
\* statistic, carried here in its place; an infinite statistic gives 0
PValue(t2) == [k |-> "p", tinf |-> FALSE, t2 |-> t2]
PZero == [k |-> "p", tinf |-> TRUE, t2 |-> RInt(0)]
POne == [k |-> "one", tinf |-> FALSE, t2 |-> RInt(0)]
PNaN == [k |-> "nan", tinf |-> FALSE, t2 |-> RInt(0)]

\* stats.ttest_ind(data1, data2, equal_var=False) for samples of at least
\* two values: t = (mean1 - mean2) / sqrt(var1/n1 + var2/n2); 0/0 is NaN
TTestInd(data1, data2) ==
    LET d == RSub(Mean(data1), Mean(data2))
        denom2 == RAdd(RDiv(Variance(data1), RInt(Len(data1))),
                       RDiv(Variance(data2), RInt(Len(data2))))
    IN  IF denom2.n = 0
        THEN IF d.n = 0 THEN PNaN ELSE PZero
        ELSE PValue(RDiv(RMul(d, d), denom2))

\* line 1066: the test on the two sample sizes
EnoughData(data1, data2) == Len(data1) >= 2 /\ Len(data2) >= 2

\* A store that fills the upper triangle only
StoreUpperOnly(matrix, i, j, v) == [matrix EXCEPT ![<<i, j>>] = v]

\* lines 1071-1072 and 1074-1075: both cells of the pair are assigned
StorePair(matrix, i, j, v) ==
    [matrix EXCEPT ![<<i, j>>] = v, ![<<j, i>>] = v]

\* itertools.combinations(range(n), 2), in its order
Combinations(n) ==
    LET pairs == {<<i, j>> \in (1..n) \X (1..n) : i < j}
        before(a, b) == a[1] < b[1] \/ (a[1] = b[1] /\ a[2] < b[2])
    IN  CHOOSE q \in [1..Cardinality(pairs) -> pairs] :
            \A x, y \in 1..Cardinality(pairs) : x < y => before(q[x], q[y])

\* lines 1060-1075: the loop over the pairs
RECURSIVE PairLoop(_, _, _, _, _)
PairLoop(matrix, pairs, rows, configurations, metric) ==
    IF pairs = <<>> THEN matrix
    ELSE LET i == Head(pairs)[1]
             j == Head(pairs)[2]
             data1 == MetricData(rows, configurations[i], metric)
             data2 == MetricData(rows, configurations[j], metric)
             v == IF EnoughData(data1, data2) THEN TTestInd(data1, data2)
                  ELSE PNaN
         IN  PairLoop(StorePair(matrix, i, j, v), Tail(pairs), rows,
                      configurations, metric)

\* lines 1077-1079: the diagonal
FillDiagonal(matrix, n) ==
    [c \in DOMAIN matrix |-> IF c[1] = c[2] /\ c[1] \in 1..n THEN POne
                             ELSE matrix[c]]

\* lines 1054-1082: the matrix of one metric; the new frame holds NaN
PValueMatrix(rows, configurations, metric) ==
    LET n == Len(configurations)
        empty == [c \in (1..n) \X (1..n) |-> PNaN]
    IN  [metric |-> metric,
         index |-> configurations,
         columns |-> configurations,
         cells |-> FillDiagonal(PairLoop(empty, Combinations(n), rows,
                                         configurations, metric), n)]

\* lines 1046-1082: the loop over the key metrics
RECURSIVE MetricLoop(_, _, _, _)
MetricLoop(metrics, df_columns, rows, configurations) ==
    IF metrics = <<>> THEN <<>>
    ELSE (IF Head(metrics) \notin df_columns THEN <<>>
          ELSE <<PValueMatrix(rows, configurations, Head(metrics))>>)
         \o MetricLoop(Tail(metrics), df_columns, rows, configurations)

\* Values returned by compare_configurations_statistically
CompareNone == [k |-> "None", dict |-> <<>>]
CompareDict(d) == [k |-> "dict", dict |-> d]
CompareNotCalled == [k |-> "unset", dict |-> <<>>]

\* compare_configurations_statistically(df), lines 1020-1105
compare_configurations_statistically(df) ==
    LET configurations == Unique(ConfigurationColumn(df.rows))
    IN  IF Len(configurations) <= 1 THEN CompareNone
        ELSE CompareDict(MetricLoop(KeyMetrics, df.columns, df.rows,
                                    configurations))

CompareInputs ==
    /\ cmp_df \in CompareFrames
    /\ cmp_pc = "start"
    /\ cmp_ret = CompareNotCalled

CompareIdle ==
    /\ cmp_df = NoFrame
    /\ cmp_pc = "idle"
    /\ cmp_ret = CompareNotCalled

CompareConfigurations ==
    /\ cmp_pc = "start"
    /\ cmp_ret' = compare_configurations_statistically(cmp_df)
    /\ cmp_pc' = "returned"
    /\ UNCHANGED cmp_df
    /\ UNCHANGED <<replVars, mergeVars, extractVars, loadVars>>

---------------------------------------------------------------------------
(* Specifications, one for each script *)

InitRepl == ReplInputs /\ MergeIdle /\ ExtractIdle /\ LoadIdle /\ CompareIdle
NextRepl == CalcRaise \/ CalcReturn \/ GenerateReport
SpecRepl == InitRepl /\ [][NextRepl]_vars

InitMerge == MergeInputs /\ ReplIdle /\ ExtractIdle /\ LoadIdle /\ CompareIdle
NextMerge == MergeCsvFiles \/ Main
SpecMerge == InitMerge /\ [][NextMerge]_vars

InitExtract == ExtractInputs /\ ReplIdle /\ MergeIdle /\ LoadIdle /\ CompareIdle
NextExtract == ExtractParameter
SpecExtract == InitExtract /\ [][NextExtract]_vars

InitLoad == LoadInputs /\ ReplIdle /\ MergeIdle /\ ExtractIdle /\ CompareIdle
NextLoad == LoadAndParseCsv \/ AnalyzeMain
SpecLoad == InitLoad /\ [][NextLoad]_vars

InitCompare ==
    CompareInputs /\ ReplIdle /\ MergeIdle /\ ExtractIdle /\ LoadIdle
NextCompare == CompareConfigurations
SpecCompare == InitCompare /\ [][NextCompare]_vars

---------------------------------------------------------------------------
(* Claims about merge_csv_files and main of merge_csv_files.py *)

MergeSucceeded == merge_pc = "returned" /\ written.path # None

\* C4: on success merge_csv_files returns the path of the merged CSV file
\* it created, as a string; with no input files or none readable it
\* returns None.
C4_ReturnsPathString ==
    merge_pc = "returned" =>
        IF written.path # None
        THEN merge_ret = ReturnStr(written.path)
        ELSE merge_ret = ReturnNone

\* C5: when merge_csv_files cannot merge anything, main prints
\* 'Error: Could not merge CSV files. Exiting.' and returns normally,
\* without raising and without analysis, report or plots.
C5_MainReportsFailedMerge ==
    (main_pc \in {"returned", "raised"} /\ merge_ret = ReturnNone) =>
        /\ main_pc = "returned"
        /\ main_exc = "none"
        /\ main_log = <<"Error: Could not merge CSV files. Exiting.">>

\* The rows of the readable files of a list, in list order and row order
RECURSIVE InputRows(_)
InputRows(list) ==
    IF list = <<>> THEN <<>>
    ELSE (IF fs[Head(list)].k = "frame" THEN fs[Head(list)].rows ELSE <<>>)
         \o InputRows(Tail(list))

RECURSIVE InputRowCount(_)
InputRowCount(list) ==
    IF list = <<>> THEN 0
    ELSE (IF fs[Head(list)].k = "frame" THEN Len(fs[Head(list)].rows) ELSE 0)
         + InputRowCount(Tail(list))

Data(rows) == [i \in 1..Len(rows) |->
                  [Configuration |-> rows[i].Configuration,
                   value |-> rows[i].value]]

\* C6: the merged frame written by merge_csv_files holds the rows of every
\* successfully read input file, in input-file order and row order, so its
\* row count is the sum of their row counts; a file that fails to read is
\* skipped with its error printed and the remaining files are still merged.
C6_MergedRowsInOrder ==
    MergeSucceeded =>
        /\ written.df = merge_ret.df
        /\ Data(written.df.rows) = Data(InputRows(reads))
        /\ Len(written.df.rows) = InputRowCount(reads)
        /\ (~ input_files.none) => reads = input_files.v
        /\ \A i \in 1..Len(reads) :
              fs[reads[i]].k # "frame" =>
                  \E j \in 1..Len(prints) :
                      prints[j] = [m |-> "Error reading", file |-> reads[i]]

C6_Witness ==
    /\ MergeSucceeded
    /\ Len(reads) = 3
    /\ fs[reads[1]] = FileA
    /\ fs[reads[2]] = CorruptFile
    /\ fs[reads[3]] = FileB
    /\ Len(written.df.rows) = 3

\* C7: when output_file is given, no file whose path equals output_file is
\* read as an input during the call, for every input_files list, also one
\* in which that path occurs more than once.
C7_OutputFileNeverRead ==
    (merge_pc = "returned" /\ output_file # None) =>
        \A i \in 1..Len(reads) : reads[i] # output_file

\* The SourceFile cells of the rows of the readable files of a list when
\* each row is labelled with the last component of the path of its file
RECURSIVE SourceLabels(_)
SourceLabels(list) ==
    IF list = <<>> THEN <<>>
    ELSE LET f == Head(list)
         IN  (IF fs[f].k = "frame"
              THEN [i \in 1..Len(fs[f].rows) |-> <<f[Len(f)]>>] ELSE <<>>)
             \o SourceLabels(Tail(list))

SourceCells(rows) == [i \in 1..Len(rows) |-> rows[i].SourceFile]

\* C8: with add_source_column=True every row of the merged frame carries
\* SourceFile equal to the base name of the file it was read from,
\* overwriting a SourceFile column of the input; with
\* add_source_column=False no SourceFile column is added and no per-file
\* row summary is printed.
C8_SourceColumn ==
    MergeSucceeded =>
        IF add_source_column
        THEN /\ "SourceFile" \in written.df.columns
             /\ SourceCells(written.df.rows) = SourceLabels(reads)
        ELSE /\ "SourceFile" \in written.df.columns
                   <=> \E i \in 1..Len(reads) :
                          /\ fs[reads[i]].k = "frame"
                          /\ "SourceFile" \in fs[reads[i]].columns
             /\ SourceCells(written.df.rows) = SourceCells(InputRows(reads))
             /\ summary = {}
             /\ \A j \in 1..Len(prints) :
                   prints[j].m # "Rows contributed by each file:"

C8_Witness ==
    /\ MergeSucceeded
    /\ add_source_column
    /\ Len(reads) = 2
    /\ reads[1] = ResultsFileInDir
    /\ fs[reads[1]] = FileB
    /\ fs[reads[2]] = FileA
    /\ written.df.rows[1].SourceFile = <<"courier_experiment_results_1.csv">>
    /\ summary # {}

---------------------------------------------------------------------------
(* Claims about extract_parameter *)

\* 'param_name=' occurs in the text at position i
OccursAt(text, name, i) ==
    /\ i + Len(name) <= Len(text)
    /\ \A j \in 1..Len(name) : text[i + j - 1] = name[j]
    /\ text[i + Len(name)] = "="

\* ... and is followed by at least one character other than '_'
OccursWithValueAt(text, name, i) ==
    /\ OccursAt(text, name, i)
    /\ i + Len(name) + 1 <= Len(text)
    /\ text[i + Len(name) + 1] # "_"

\* The text after the occurrence at i, up to the next '_' or the end
TextAfter(text, name, i) ==
    LET from == i + Len(name) + 1
        stops == {j \in from..Len(text) : text[j] = "_"} \cup {Len(text) + 1}
        to == CHOOSE j \in stops : \A l \in stops : j <= l
    IN  SubSeq(text, from, to - 1)

ValueOfText(text, bool) ==
    IF bool THEN RetBool(\/ text = <<"t", "r", "u", "e">>
                         \/ text = <<"T", "r", "u", "e">>)
    ELSE IF ParsesAsFloat(text) THEN RetFloat(Float(text))
    ELSE RetStr(text)

First(S) == CHOOSE i \in S : \A j \in S : i <= j

---------------------------------------------------------------------------
(* Claims about load_and_parse_csv and main of analyze_courier_experiments.py *)

\* The failures C10 names: the file is missing or unreadable, there is no
\* 'Run' column, no 'Configuration' column, or a Run value has a suffix
\* after '_' that is not an integer
LoadFailure ==
    \/ csv_file.k # "frame"
    \/ "Run" \notin csv_file.columns
    \/ "Configuration" \notin csv_file.columns
    \/ \E i \in 1..Len(csv_file.rows) :
          csv_file.rows[i].Run \in {RunText(<<"r", "u", "n", "_", "x">>),
                                    RunText(<<"r", "u", "n", "_">>)}

\* C10: load_and_parse_csv never raises: on any failure it prints a
\* diagnostic and returns None; main then prints 'No data to analyze.
\* Exiting.' and returns without analysis, figure or workbook.
C10_LoadNeverRaises ==
    /\ load_pc # "raised"
    /\ (load_pc = "returned" /\ LoadFailure) =>
          /\ load_ret = NoFrame
          /\ load_prints = <<"Loading data", "Error loading data">>
    /\ (load_pc = "returned" /\ ~ LoadFailure) => load_ret.k = "frame"
    /\ (am_pc \in {"returned", "raised"} /\ LoadFailure) =>
          /\ am_pc = "returned"
          /\ am_exc = "none"
          /\ am_log = <<"No data to analyze. Exiting.">>

C10_Witness ==
    /\ am_pc = "returned"
    /\ csv_file.k = "frame"
    /\ csv_file.columns = LoadColumns
    /\ Len(csv_file.rows) = 2
    /\ csv_file.rows[1].Run = RunText(<<"r", "u", "n", "_", "1">>)
    /\ csv_file.rows[2].Run = RunText(<<"r", "u", "n", "_", "x">>)
    /\ load_caught = "ValueError"
    /\ load_ret = NoFrame
    /\ am_log = <<"No data to analyze. Exiting.">>

---------------------------------------------------------------------------
(* Claims about compare_configurations_statistically *)

\* The distinct values of the Configuration column (a missing cell is one
\* value) and the non-missing values of a metric that pandas selects for one
DistinctConfigurations ==
    {cmp_df.rows[i].Configuration : i \in 1..Len(cmp_df.rows)}
MetricValuesOf(config, metric) ==
    {i \in 1..Len(cmp_df.rows) :
        /\ config.k # "nan"
        /\ cmp_df.rows[i].Configuration = config
        /\ cmp_df.rows[i][metric].k = "num"}
FewerThanTwo(config, metric) == Cardinality(MetricValuesOf(config, metric)) < 2
AllEqual(c1, c2, metric) ==
    \A i, j \in MetricValuesOf(c1, metric) \cup MetricValuesOf(c2, metric) :
        cmp_df.rows[i][metric].v = cmp_df.rows[j][metric].v

\* The matrix is square over the distinct configurations, symmetric, and
\* has 1.0 on the diagonal
WellFormedMatrix(m) ==
    LET n == Len(m.index)
    IN  /\ m.index = m.columns
        /\ n = Cardinality(DistinctConfigurations)
        /\ {m.index[i] : i \in 1..n} = DistinctConfigurations
        /\ DOMAIN m.cells = (1..n) \X (1..n)
        /\ \A i, j \in 1..n : m.cells[<<i, j>>] = m.cells[<<j, i>>]
        /\ \A i \in 1..n : m.cells[<<i, i>>] = POne

---------------------------------------------------------------------------
(* Claims about main of analyze_courier_experiments.py *)

\* The file loads into a frame with at least one row
LoadedWithRows ==
    /\ csv_file.k = "frame"
    /\ ~ LoadFailure
    /\ Len(csv_file.rows) > 0

\* C12: a CSV that holds every expected column except AvgOpenOrders and
\* MaxOpenOrders is analysed to the end: main runs every step, the workbook
\* export included, and only the open-orders outputs are left out.
C12_RunsToTheEndWithoutOpenOrders ==
    (/\ am_pc \in {"returned", "raised"}
     /\ LoadedWithRows
     /\ csv_file.columns = LoadColumns \ {"OpenOrders"}) =>
        /\ am_pc = "returned"
        /\ am_exc = "none"
        /\ \E i \in 1..Len(am_log) : am_log[i] = "save_results_to_excel"
        /\ am_log[Len(am_log)] = "Analysis completed successfully!"

---------------------------------------------------------------------------
(* Claims about calculate_replications and generate_report *)

\* The number held by a numeric cell of the variable column
NumericValueOf(cell) == IF cell.k = "num" THEN cell.v ELSE 3

\* All numeric values of configuration c are one same number
AllValuesEqual(c) ==
    \A i, j \in NumericRowsOf(c) :
        NumericValueOf(data_rows[i].value) = NumericValueOf(data_rows[j].value)

\* The lines of block i of the report that carry the label
LinesOf(i, label) ==
    {k \in 1..Len(report[i].lines) : report[i].lines[k].label = label}

\* Block i of the report has exactly one line with the label, and that line
\* has the text
OneLine(i, label, text) ==
    /\ Cardinality(LinesOf(i, label)) = 1
    /\ \A k \in LinesOf(i, label) : report[i].lines[k].text = text

CalcCalled ==
    /\ calc_pc # "start"
    /\ "Configuration" \in data_columns
    /\ Variable \in data_columns

\* C13: for a configuration with exactly one numeric value,
\* calculate_replications does not raise and stores current_half_width = NaN,
\* current_ci = (NaN, NaN) and required_replications = infinity;
\* generate_report prints 'Not calculable' for the half width and the
\* interval, 'Required replications: Cannot be determined' and the '?' status
\* for that configuration.
C13_SingleValueNotCalculable ==
    CalcCalled =>
        /\ calc_pc = "returned"
        /\ \A c \in ConfigNames :
              Cardinality(NumericRowsOf(c)) = 1 =>
                 /\ EntryIndexesOf(Config(c)) # {}
                 /\ \A i \in EntryIndexesOf(Config(c)) :
                       /\ results[i].current_half_width = NaN
                       /\ results[i].current_ci = <<NaN, NaN>>
                       /\ ~ results[i].required_replications.fin
                       /\ report_pc = "returned" =>
                             /\ report[i].config = Config(c)
                             /\ OneLine(i, "Current half-width of CI",
                                        "Not calculable")
                             /\ OneLine(i, "Current CI", "Not calculable")
                             /\ OneLine(i, "Required replications",
                                        "Cannot be determined")
                             /\ OneLine(i, "Status",
                                   "Unable to calculate required replications")

C13_Witness ==
    /\ report_pc = "returned"
    /\ Len(data_rows) = 3
    /\ Cardinality(NumericRowsOf("A")) = 1
    /\ Cardinality(NumericRowsOf("B")) = 2
    /\ Len(report) = 2

\* C14: for a configuration with n >= 2 values whose sample standard
\* deviation is below 1e-10 (all values equal in particular),
\* required_replications is 1 whatever the mean, relative_precision and
\* confidence, and generate_report reports 'Current replications are
\* sufficient'.
C14_ConstantValuesNeedOneReplication ==
    calc_pc = "returned" =>
        /\ \A c \in ConfigNames :
              (Cardinality(NumericRowsOf(c)) >= 2 /\ AllValuesEqual(c)) =>
                 \A i \in EntryIndexesOf(Config(c)) :
                     results[i].std = Surd(RInt(0))
        /\ \A i \in 1..Len(results) :
              (/\ results[i].current_sample_size >= 2
               /\ results[i].std = Surd(RInt(0))) =>
                 /\ results[i].required_replications = [fin |-> TRUE, v |-> 1]
                 /\ report_pc = "returned" =>
                       /\ OneLine(i, "Status",
                                  "Current replications are sufficient")
                       /\ \A k \in LinesOf(i, "Required replications") :
                             report[i].lines[k].k = 1

C14_Witness ==
    /\ report_pc = "returned"
    /\ relative_precision = Rat(1, 10)
    /\ Cardinality(NumericRowsOf("A")) = 3
    /\ AllValuesEqual("A")
    /\ \E i \in EntryIndexesOf(Config("A")) :
          /\ results[i].mean = RInt(-3)
          /\ results[i].required_replications.v = 1

\* C15: absolute_precision is relative_precision * |mean| when the mean of the
\* configuration is not 0 and relative_precision itself when the mean is 0;
\* with relative_precision > 0 every entry has absolute_precision > 0, so the
\* divisor of the required-replications formula is never zero.
C15_AbsolutePrecisionPositive ==
    calc_pc = "returned" =>
        \A e \in Entries :
            LET p == e.absolute_precision
            IN  /\ e.mean.n > 0 => p = RMul(relative_precision, e.mean)
                /\ e.mean.n < 0 =>
                      p = RMul(relative_precision,
                               [n |-> 0 - e.mean.n, d |-> e.mean.d])
                /\ e.mean.n = 0 => p = relative_precision
                /\ p.n > 0 /\ p.d > 0
                /\ RMul(p, p).n # 0

C15_Witness ==
    /\ calc_pc = "returned"
    /\ \E e \in Entries :
          /\ e.mean.n = 0
          /\ e.current_sample_size = 2
          /\ e.required_replications.fin
          /\ e.required_replications.v > 1
    /\ \E e \in Entries : e.mean.n < 0

\* C16: for every result entry generate_report emits exactly one status line:
\* 'Current replications are sufficient' iff required_replications is finite
\* and <= current_sample_size; 'Need k more replications' with
\* k = required_replications - current_sample_size >= 1 iff it is finite and
\* > current_sample_size; 'Unable to calculate required replications' iff it
\* is infinite.
C16_OneStatusLinePerEntry ==
    report_pc = "returned" =>
        /\ Len(report) = Len(results)
        /\ \A i \in 1..Len(results) :
              LET req == results[i].required_replications
                  n == results[i].current_sample_size
              IN  /\ report[i].config = results[i].config
                  /\ Cardinality(LinesOf(i, "Status")) = 1
                  /\ \A k \in LinesOf(i, "Status") :
                        LET line == report[i].lines[k]
                        IN  /\ line.text \in
                                 {"Current replications are sufficient",
                                  "Need more replications",
                                  "Unable to calculate required replications"}
                            /\ line.text = "Current replications are sufficient"
                                  <=> (req.fin /\ req.v <= n)
                            /\ line.text = "Need more replications"
                                  <=> (req.fin /\ req.v > n)
                            /\ line.text
                                  = "Unable to calculate required replications"
                                  <=> ~ req.fin
                            /\ line.text = "Need more replications" =>
                                  (line.k = req.v - n /\ line.k >= 1)

C16_Witness ==
    /\ report_pc = "returned"
    /\ Len(report) = 2
    /\ \E k \in LinesOf(1, "Status") :
          report[1].lines[k].text = "Need more replications"
    /\ \E k \in LinesOf(2, "Status") :
          report[2].lines[k].text = "Unable to calculate required replications"

\* C17: for every configuration with n >= 2 values and standard deviation
\* >= 1e-10, required_replications <= current_sample_size (status
\* 'sufficient') holds if and only if current_half_width <= absolute_precision.
C17_VerdictAgreesWithInterval ==
    calc_pc = "returned" =>
        \A i \in 1..Len(results) :
            LET e == results[i]
                p == e.absolute_precision
            IN  (e.current_sample_size >= 2 /\ e.std.k = "surd"
                   /\ e.std.q.n > 0) =>
                   /\ e.required_replications.fin
                   /\ e.current_half_width.k = "surd"
                   /\ (e.required_replications.v <= e.current_sample_size)
                         <=> RLe(e.current_half_width.q, RMul(p, p))
                   /\ report_pc = "returned" =>
                         (OneLine(i, "Status",
                                  "Current replications are sufficient")
                            <=> RLe(e.current_half_width.q, RMul(p, p)))

C17_Witness ==
    /\ report_pc = "returned"
    /\ \E i \in 1..Len(results) :
          /\ results[i].current_sample_size >= 2
          /\ results[i].std.k = "surd"
          /\ results[i].std.q.n > 0
          /\ results[i].required_replications.v
                <= results[i].current_sample_size
          /\ OneLine(i, "Status", "Current replications are sufficient")

---------------------------------------------------------------------------
(* Claims about the names extract_parameter matches *)

\* The positions where an item of an underscore-separated text begins
ItemStarts(text) ==
    {1} \cup {i + 1 : i \in {j \in 1..Len(text) : text[j] = "_"}}

\* The last position of the item that begins at position from
ItemEnd(text, from) ==
    LET stops == {j \in from..Len(text) : text[j] = "_"} \cup {Len(text) + 1}
    IN  First(stops) - 1

\* The text is a list of 'name=value' items separated by single underscores
NameValueItems(text) ==
    /\ text # <<>>
    /\ \A from \in ItemStarts(text) :
          LET to == ItemEnd(text, from)
          IN  /\ from < to
              /\ Cardinality({j \in from..to : text[j] = "="}) = 1
              /\ text[from] # "="
              /\ text[to] # "="

\* C18: in a configuration string of underscore-separated 'name=value' items,
\* extract_parameter returns the value of the item whose name is exactly
\* param_name; an item whose name only ends with param_name (such as
\* 'max-autonomy-level=5' for 'autonomy-level') is never the match.
C18_ExactNameOnly ==
    (ep_pc = "returned" /\ config_str.isstr /\ NameValueItems(config_str.text)) =>
        LET text == config_str.text
            exact == {i \in ItemStarts(text) : OccursAt(text, param_name, i)}
        IN  IF exact = {} THEN ep_ret = RetNone
            ELSE ep_ret = ValueOfText(TextAfter(text, param_name, First(exact)),
                                      is_bool)

---------------------------------------------------------------------------
(* Claims about the order of the steps of main *)

\* The order the steps are said to run in, after the load
StatedOrder ==
    <<"summarize_experiment", "analyze_by_configuration",
      "compare_autonomy_levels", "compare_cooperativeness_levels",
      "analyze_memory_effects", "analyze_workload_balance",
      "compare_configurations_statistically", "analyze_parameter_effects",
      "generate_visualizations", "save_results_to_excel">>

IsStatedStep(x) == \E k \in 1..Len(StatedOrder) : StatedOrder[k] = x

EfficiencyPlots ==
    {"plot_efficiency_balance_ratio", "plot_efficiency_balance_heatmap"}

MissingColumnReturns ==
    {"Missing required columns for efficiency-balance ratio scatter plot",
     "Missing required columns for enhanced heatmap"}

\* C19: the steps of main run in a fixed order: the load, the summaries,
\* analyze_workload_balance, the statistical comparisons, the parameter
\* effects, the visualizations, and the workbook export last; the two
\* efficiency-balance plots are reached only after analyze_workload_balance
\* added the EfficiencyToBalanceRatio column, so neither returns early for a
\* missing column.
C19_StepsInFixedOrder ==
    am_pc \in {"returned", "raised"} =>
        LET steps == SelectSeq(am_log, IsStatedStep)
        IN  /\ Len(steps) <= Len(StatedOrder)
            /\ steps = SubSeq(StatedOrder, 1, Len(steps))
            /\ steps # <<>> =>
                  /\ load_pc = "returned"
                  /\ load_ret.k = "frame"
                  /\ am_log[1] = steps[1]
            /\ \A i \in 1..Len(am_log) :
                  am_log[i] \in EfficiencyPlots =>
                     /\ \E j \in 1..(i - 1) :
                           am_log[j] = "analyze_workload_balance"
                     /\ \E j \in 1..(i - 1) :
                           am_log[j] = "generate_visualizations"
                     /\ "EfficiencyToBalanceRatio" \in am_columns
            /\ \A i \in 1..Len(am_log) : am_log[i] \notin MissingColumnReturns
            /\ (\E i \in 1..Len(am_log) :
                   am_log[i] = "Analysis completed successfully!") =>
                  /\ steps = StatedOrder
                  /\ Len(am_log) >= 2
                  /\ am_log[Len(am_log)] = "Analysis completed successfully!"
                  /\ am_log[Len(am_log) - 1] = "save_results_to_excel"

C19_Witness ==
    /\ am_pc = "returned"
    /\ Len(csv_file.rows) = 2
    /\ am_log = <<"summarize_experiment", "analyze_by_configuration",
                  "compare_autonomy_levels", "compare_cooperativeness_levels",
                  "analyze_memory_effects", "analyze_workload_balance",
                  "compare_configurations_statistically",
                  "analyze_parameter_effects", "generate_visualizations",
                  "plot_efficiency_balance_ratio",
                  "plot_efficiency_balance_heatmap",
                  "plot_open_orders_visualizations", "save_results_to_excel",
                  "Analysis completed successfully!">>
    /\ "EfficiencyToBalanceRatio" \in am_columns
====
